---------------------------- MODULE Spec2Model ----------------------------
(***************************************************************************)
(* A model of spread's remote-execution client (src/spread/client.go):     *)
(* the timeout controller, the command supervisors (Client.runCommand,     *)
(* runScript), the marker recognition of runPart and runScript, the       *)
(* reboot loop of Client.run, safeBuffer under concurrent calls, the       *)
(* session, terminal lock and writer task of runPart, dialOnReboot, and    *)
(* Send with its MissingOrEmpty check.                                     *)
(*                                                                         *)
(* Byte strings are sequences of one-character strings.  Durations are     *)
(* counted in ticks of 50 ms (Go counts nanoseconds); the one duration     *)
(* that is no multiple of 50 ms, the sentinel time.Duration(-1), is        *)
(* written NoTimeout.                                                      *)
(***************************************************************************)
EXTENDS Integers, Sequences, FiniteSets, TLC

VARIABLES
    \* ---- timeout controller (Client.warnTimeout, Client.killTimeout)
    warnTimeout,    \* c.warnTimeout
    killTimeout,    \* c.killTimeout
    warnReq,        \* the duration the last SetWarnTimeout call asked for
    killReq,        \* the duration the last SetKillTimeout call asked for
    setterCalls,    \* number of setter calls made after Dial
    \* ---- command supervisor (Client.runCommand, runScript)
    sup,            \* the supervisor running: "none", "runCommand", "runScript"
    caller,         \* who called runCommand: "runPart", "Send", "ReadFile"
    spc,            \* the supervisor's position: "idle", "select", "returned"
    now,            \* time since the timers were made
    warnAt,         \* when the warn ticker ticks next
    warnC,          \* the ticker's channel holds a tick
    killC,          \* the kill timer: "pending", "ready", "taken"
    proc,           \* the command: "none", "running", "exited", "killed"
    exitCode,       \* the status the command exited with
    doneC,          \* the waiter task: "waiting", "ready" (sending), "taken"
    outbuf,         \* the buffer attached to the command's stdout
    errbuf,         \* the buffer attached to the command's stderr
    lastOut,        \* the supervisor's lastOut
    lastErr,        \* the supervisor's lastErr
    warnLog,        \* the warnings logged, oldest first
    killLogLen,     \* Len(warnLog) when the kill case ran, -1 before
    wrote,          \* a byte was written to a buffer since the last warn tick
    writes,         \* number of writes the command made
    result,         \* what the supervisor returned
    \* ---- the results of runPart and runScript, applied to drawn inputs
    mkPc,           \* "input", then the function applied: "runPart", "runScript"
    mkMode,         \* the output mode
    mkErr,          \* the error the command ended with
    mkStdout,       \* the stdout buffer when the command ended
    mkStderr,       \* the stderr buffer when the command ended
    mkPrevious,     \* runPart's previous
    mkResult,       \* what the function returned
    \* ---- the reboot loop of Client.run
    pc,             \* where run is: "idle", "runPart", "reboot", "dial", "returned"
    runMode,        \* the mode run was called with
    scriptEmpty,    \* the script is empty once trimmed
    env,            \* the Environment run works on: a set of <<key, value>>
    reboot,         \* the loop counter
    rebootKey,      \* run's rebootKey
    runOutput,      \* run's output, carried from one attempt to the next
    attempts,       \* the executions of the script on the target, oldest first
    reboots,        \* number of times the target was rebooted
    ret,            \* what run returned
    envBefore,      \* what the caller's Environment held when run was called
    probe,          \* the last reboot step: how the reboot command ended, and
                    \* whether "echo should-have-disconnected" was run
    \* ---- one safeBuffer and the tasks that call it
    sbBuf,          \* sbuf.buf: the bytes written so far
    sbMu,           \* sbuf.mu: "free", or the task that holds it
    sbTask,         \* each task's call: its position, operation, argument, result
    sbOrder,        \* the data of the Write calls, in the order they took the lock
    sbCalls,        \* number of calls made
    \* ---- concurrent runPart calls: session, terminal lock, errch
    term,           \* the terminal lock: "free", or the call that holds it
    part,           \* each runPart call: position, session, errch, writer, result
    \* ---- dialOnReboot
    dpc,            \* where dialOnReboot is: "dialA", "selectA", "dialB", "selectB"
    dnow,           \* seconds since dialOnReboot made its timers
    before,         \* phase A's before, in the same seconds
    retryC,         \* retry.C holds a tick
    relogC,         \* relog.C holds a tick
    timeoutC,       \* the kill timer: "pending", "ready", "taken"
    sshc,           \* c.sshc: "old" or "new"
    oldClosed,      \* the old transport was closed
    probeOpen,      \* a connection dialed in phase A is open
    lastDial,       \* the last dial that returned: its config and outcome
    relogs,         \* "Reboot ... is taking a while" was printed
    dret,           \* what dialOnReboot returned
    \* ---- Send and MissingOrEmpty
    sdPc,           \* where Send is: "check", "gate", "NewSession", ..., "returned"
    lsEntries,      \* what the remote listing of to prints, one entry a line
    lsErr,          \* the error c.Output returns to MissingOrEmpty
    sdEmpty,        \* what MissingOrEmpty returned
    sdSession,      \* the transfer session: "none", "open", "closed"
    sdTar,          \* the local tar process: "none", "started", "done"
    sdRet           \* what Send returned

timeoutVars == <<warnTimeout, killTimeout, warnReq, killReq, setterCalls>>

supVars ==
    <<sup, caller, spc, now, warnAt, warnC, killC, proc, exitCode, doneC, outbuf,
      errbuf, lastOut, lastErr, warnLog, killLogLen, wrote, writes, result>>

markVars == <<mkPc, mkMode, mkErr, mkStdout, mkStderr, mkPrevious, mkResult>>

runVars ==
    <<pc, runMode, scriptEmpty, env, reboot, rebootKey, runOutput, attempts, reboots, ret,
      envBefore, probe>>

bufVars ==
    <<sbBuf, sbMu, sbTask, sbOrder, sbCalls>>

partVars ==
    <<term, part>>

dialVars ==
    <<dpc, dnow, before, retryC, relogC, timeoutC, sshc, oldClosed,
      probeOpen, lastDial, relogs, dret>>

sendVars ==
    <<sdPc, lsEntries, lsErr, sdEmpty, sdSession, sdTar, sdRet>>

vars == <<timeoutVars, supVars, markVars, runVars, bufVars, partVars, dialVars, sendVars>>

\* What the actions of one part of the model leave alone.
notTimeoutVars == <<supVars, markVars, runVars, bufVars, partVars, dialVars, sendVars>>
notSupVars == <<timeoutVars, markVars, runVars, bufVars, partVars, dialVars, sendVars>>
notMarkVars == <<timeoutVars, supVars, runVars, bufVars, partVars, dialVars, sendVars>>
notRunVars == <<timeoutVars, supVars, markVars, bufVars, partVars, dialVars, sendVars>>
notBufVars == <<timeoutVars, supVars, markVars, runVars, partVars, dialVars, sendVars>>
notPartVars == <<timeoutVars, supVars, markVars, runVars, bufVars, dialVars, sendVars>>
notDialVars == <<timeoutVars, supVars, markVars, runVars, bufVars, partVars, sendVars>>
notSendVars == <<timeoutVars, supVars, markVars, runVars, bufVars, partVars, dialVars>>

---------------------------------------------------------------------------
(* Byte strings                                                            *)

\* bytes.TrimSpace's notion of white space, over the bytes the model uses.
IsSpace(b) == b \in {" ", "\n", "\t", "\r"}

RECURSIVE TrimLeft(_)
TrimLeft(s) ==
    IF s # <<>> /\ IsSpace(Head(s)) THEN TrimLeft(Tail(s)) ELSE s

RECURSIVE TrimRight(_)
TrimRight(s) ==
    IF s # <<>> /\ IsSpace(s[Len(s)]) THEN TrimRight(SubSeq(s, 1, Len(s) - 1)) ELSE s

\* bytes.TrimSpace
TrimSpace(s) == TrimRight(TrimLeft(s))

\* bytes.HasPrefix
HasPrefix(s, p) == Len(p) <= Len(s) /\ SubSeq(s, 1, Len(p)) = p

\* bytes.TrimPrefix
TrimPrefix(s, p) == IF HasPrefix(s, p) THEN SubSeq(s, Len(p) + 1, Len(s)) ELSE s

\* bytes.Contains(s, []byte{b})
ContainsByte(s, b) == \E i \in 1..Len(s) : s[i] = b

\* The last element of bytes.Split(s, "\n"): what follows the last newline.
RECURSIVE LastLineFrom(_, _)
LastLineFrom(s, i) ==
    IF i = 0 \/ s[i] = "\n" THEN SubSeq(s, i + 1, Len(s)) ELSE LastLineFrom(s, i - 1)

LastLine(s) == LastLineFrom(s, Len(s))

---------------------------------------------------------------------------
(* Errors                                                                  *)

\* An error value: its kind, the exit status of an ExitError, and the text of
\* an error made from output or from a marker.
Err(kind, status, text) == [kind |-> kind, status |-> status, text |-> text]

NilErr == Err("nil", 0, <<>>)

\* *ssh.ExitError, *exec.ExitError
ExitErr(status) == Err("exit", status, <<>>)

\* fmt.Errorf("kill-timeout reached")
KillTimeoutErr == Err("kill-timeout", 0, <<>>)

\* fmt.Errorf("%s", text)
TextErr(text) == Err("text", 0, text)

Fence == <<"-", "-", "-", "-", "-">>

\* outputErr
outputErr(output, err) ==
    LET out == TrimSpace(output)
    IN  IF Len(out) > 0
        THEN IF ContainsByte(out, "\n")
             THEN TextErr(<<"\n">> \o Fence \o <<"\n">> \o out \o <<"\n">> \o Fence)
             ELSE TextErr(out)
        ELSE err

\* exitStatus
exitStatus(err) ==
    IF err.kind = "nil" THEN 0
    ELSE IF err.kind # "exit" THEN 1
    ELSE err.status

\* The supervisor variables of a client that runs no command.
SupIdle ==
    /\ sup = "none" /\ caller = "none" /\ spc = "idle"
    /\ now = 0 /\ warnAt = 0 /\ warnC = FALSE /\ killC = "pending"
    /\ proc = "none" /\ exitCode = 0 /\ doneC = "waiting"
    /\ outbuf = <<>> /\ errbuf = <<>> /\ lastOut = 0 /\ lastErr = 0
    /\ warnLog = <<>> /\ killLogLen = -1 /\ wrote = FALSE /\ writes = 0
    /\ result = [stdout |-> <<>>, stderr |-> <<>>, err |-> NilErr]

\* The variables of the drawn inputs, when nothing is drawn.
MarkIdle ==
    /\ mkPc = "idle" /\ mkMode = 0 /\ mkErr = NilErr
    /\ mkStdout = <<>> /\ mkStderr = <<>> /\ mkPrevious = <<>>
    /\ mkResult = [output |-> <<>>, stdout |-> <<>>, stderr |-> <<>>, err |-> NilErr]

\* The variables of run, when no call is made.
RunIdle ==
    /\ pc = "idle" /\ runMode = 0 /\ scriptEmpty = FALSE /\ env = {}
    /\ reboot = 0 /\ rebootKey = <<>> /\ runOutput = <<>>
    /\ attempts = <<>> /\ reboots = 0
    /\ ret = [output |-> <<>>, err |-> NilErr]
    /\ envBefore = {}
    /\ probe = [done |-> FALSE, ok |-> FALSE, probed |-> FALSE]

\* The variables of a safeBuffer, when no task uses one.
BufIdle ==
    /\ sbBuf = <<>> /\ sbMu = "free" /\ sbTask = <<>>
    /\ sbOrder = <<>> /\ sbCalls = 0

\* The variables of the runPart calls, when none is made.
PartIdle == term = "free" /\ part = <<>>

\* The variables of dialOnReboot, when it is not called.
DialIdle ==
    /\ dpc = "idle" /\ dnow = 0 /\ before = 0
    /\ retryC = FALSE /\ relogC = FALSE /\ timeoutC = "pending"
    /\ sshc = "old" /\ oldClosed = FALSE /\ probeOpen = FALSE
    /\ lastDial = [config |-> "none", ok |-> FALSE]
    /\ relogs = FALSE
    /\ dret = NilErr

\* The variables of Send, when it is not called.
SendIdle ==
    /\ sdPc = "idle" /\ lsEntries = <<>> /\ lsErr = NilErr
    /\ sdEmpty = [empty |-> FALSE, err |-> NilErr]
    /\ sdSession = "none" /\ sdTar = "none" /\ sdRet = NilErr

---------------------------------------------------------------------------
(* Timeout controller                                                      *)

\* One second, in ticks of 50 ms.
Second == 20

\* The sentinel time.Duration(-1) the setters read as "no timeout".
NoTimeout == -1

defaultWarnTimeout == 5 * 60 * Second
defaultKillTimeout == 15 * 60 * Second
maxTimeout == 365 * 24 * 3600 * Second

\* Go's remainder: truncated division, the sign of the dividend (b # 0).
Abs(a) == IF a < 0 THEN -a ELSE a

GoSign(a) == IF a < 0 THEN -1 ELSE 1

GoRem(a, b) == GoSign(a) * (Abs(a) % Abs(b))

\* The duration a setter argument stands for: 0 is the default, -1 the maximum.
WarnArg(timeout) ==
    IF timeout = 0 THEN defaultWarnTimeout
    ELSE IF timeout = NoTimeout THEN maxTimeout
    ELSE timeout

KillArg(timeout) ==
    IF timeout = 0 THEN defaultKillTimeout
    ELSE IF timeout = NoTimeout THEN maxTimeout
    ELSE timeout

\* A faulty variant of AdjustKill: the second is never taken off.
AdjustKillNever(kill, warn) == kill

\* "So message from kill won't race with warning."
AdjustKill(kill, warn) ==
    IF GoRem(kill, warn) = 0 THEN kill - 1 * Second ELSE kill

\* The timers after c.SetWarnTimeout(timeout) on a client whose timers are t.
AfterSetWarn(t, timeout) ==
    [warn |-> WarnArg(timeout), kill |-> AdjustKill(t.kill, WarnArg(timeout))]

\* The timers after c.SetKillTimeout(timeout) on a client whose timers are t.
AfterSetKill(t, timeout) ==
    [warn |-> t.warn, kill |-> AdjustKill(KillArg(timeout), t.warn)]

\* The timers Dial leaves: SetWarnTimeout(0), then SetKillTimeout(0), on the
\* zero-valued fields of the new Client.
DialTimers == AfterSetKill(AfterSetWarn([warn |-> 0, kill |-> 0], 0), 0)

\* Setter arguments the model draws: the two sentinels, 50 ms, 150 ms, and
\* whole seconds.
TimeoutArgs ==
    {0, NoTimeout, 1, 3, Second, 2 * Second, 3 * Second, 4 * Second, 6 * Second}

MaxSetterCalls == 3

\* The state after Dial.
InitClient ==
    /\ warnTimeout = DialTimers.warn
    /\ killTimeout = DialTimers.kill
    /\ warnReq = WarnArg(0)
    /\ killReq = KillArg(0)
    /\ setterCalls = 0

InitTimeout ==
    /\ InitClient
    /\ SupIdle
    /\ MarkIdle
    /\ RunIdle
    /\ SendIdle
    /\ DialIdle
    /\ PartIdle
    /\ BufIdle

SetWarnTimeout(timeout) ==
    /\ setterCalls < MaxSetterCalls
    /\ LET t == AfterSetWarn([warn |-> warnTimeout, kill |-> killTimeout], timeout)
       IN  /\ warnTimeout' = t.warn
           /\ killTimeout' = t.kill
    /\ warnReq' = WarnArg(timeout)
    /\ setterCalls' = setterCalls + 1
    /\ UNCHANGED <<killReq, notTimeoutVars>>

SetKillTimeout(timeout) ==
    /\ setterCalls < MaxSetterCalls
    /\ LET t == AfterSetKill([warn |-> warnTimeout, kill |-> killTimeout], timeout)
       IN  /\ warnTimeout' = t.warn
           /\ killTimeout' = t.kill
    /\ killReq' = KillArg(timeout)
    /\ setterCalls' = setterCalls + 1
    /\ UNCHANGED <<warnReq, notTimeoutVars>>

NextTimeout ==
    \/ \E timeout \in TimeoutArgs : SetWarnTimeout(timeout)
    \/ \E timeout \in TimeoutArgs : SetKillTimeout(timeout)

SpecTimeout == InitTimeout /\ [][NextTimeout]_vars

\* C6: after Dial and after any sequence of SetWarnTimeout and SetKillTimeout
\* calls, warnTimeout is at least one second and killTimeout is positive.
C6_TimersInRange == warnTimeout >= Second /\ killTimeout > 0

\* C7: whenever the durations last asked for are both above one second and
\* the kill duration is an exact multiple of the warn duration, the timers
\* the setters leave have killTimeout no exact multiple of warnTimeout.
C7_NoCollision ==
    (warnReq > Second /\ killReq > Second /\ GoRem(killReq, warnReq) = 0)
        => GoRem(killTimeout, warnTimeout) # 0

\* C7 witness: both setters were called, asking for warn = 2 s and kill = 4 s,
\* and the adjustment took one second off the kill timeout.
C7_Witness ==
    /\ setterCalls >= 2
    /\ warnReq = 2 * Second /\ killReq = 4 * Second
    /\ warnTimeout = warnReq
    /\ killTimeout = killReq - Second

---------------------------------------------------------------------------
(* safeBuffer.Since and the warn report                                    *)

unchangedMarker == <<"(", ".", ".", ".", ")">>

\* The newline the loop of Since stops at, as a position from 1 (the byte
\* data[i] of the source is position i+1): the loop runs i from offset-1 down
\* while i > 1.  0 when the loop finds none.
SinceNewline(data, offset) ==
    LET found == {j \in 3..offset : data[j] = "\n"}
    IN  IF found = {} THEN 0 ELSE CHOOSE j \in found : \A k \in found : k <= j

\* safeBuffer.Since: the view and the new offset.
Since(data, offset) ==
    LET j == SinceNewline(data, offset)
    IN  [view |-> TrimSpace(IF j # 0
                            THEN unchangedMarker \o SubSeq(data, j, Len(data))
                            ELSE data),
         len  |-> Len(data)]

\* A faulty variant of WarnReport: the prefix test is made the other way
\* round, and the two views are always joined otherwise.
WarnReportReversed(outView, errView, hasOut, hasErr) ==
    IF Len(outView) = 0 \/ HasPrefix(outView, errView) THEN errView
    ELSE outView \o <<"\n", "\n">> \o errView

\* The report of a warn tick, from the view of stdout and of stderr; hasOut
\* and hasErr say which of the two writers is a safeBuffer.
WarnReport(outView, errView, hasOut, hasErr) ==
    LET output == IF hasOut THEN outView ELSE <<>>
    IN  IF ~hasErr THEN output
        ELSE IF Len(output) = 0 \/ HasPrefix(errView, output) THEN errView
        ELSE IF Len(errView) > 0 THEN output \o <<"\n", "\n">> \o errView
        ELSE output

\* Which of the three warnings is logged.
WarnKind(output) ==
    IF output = unchangedMarker THEN "unchanged"
    ELSE IF Len(output) = 0 THEN "empty"
    ELSE "current"

---------------------------------------------------------------------------
(* Markers                                                                 *)

Upper ==
    {"A", "B", "C", "D", "E", "F", "G", "H", "I", "J", "K", "L", "M", "N", "O",
     "P", "Q", "R", "S", "T", "U", "V", "W", "X", "Y", "Z", "_"}

\* The first position from i on that holds no byte of [A-Z_].
RECURSIVE NameEnd(_, _)
NameEnd(line, i) ==
    IF i <= Len(line) /\ line[i] \in Upper THEN NameEnd(line, i + 1) ELSE i

NoMatch == [ok |-> FALSE, name |-> <<>>, arg |-> <<>>]

\* commandExp = ^<([A-Z_]+)(?: (.*))?>$ on a line (a line holds no newline).
commandExp(line) ==
    IF Len(line) < 3 \/ line[1] # "<" \/ line[Len(line)] # ">" THEN NoMatch
    ELSE LET e == NameEnd(line, 2)
         IN  IF e = 2 THEN NoMatch
             ELSE IF e = Len(line)
                  THEN [ok |-> TRUE, name |-> SubSeq(line, 2, e - 1), arg |-> <<>>]
             ELSE IF line[e] = " "
                  THEN [ok |-> TRUE, name |-> SubSeq(line, 2, e - 1),
                        arg |-> SubSeq(line, e + 1, Len(line) - 1)]
             ELSE NoMatch

RebootName == <<"R", "E", "B", "O", "O", "T">>

\* rebootExp = ^<REBOOT(?: (.*))?>$ on a line.
rebootExp(line) ==
    IF ~HasPrefix(line, <<"<">> \o RebootName) \/ line[Len(line)] # ">" THEN NoMatch
    ELSE IF Len(line) = 8
         THEN [ok |-> TRUE, name |-> RebootName, arg |-> <<>>]
    ELSE IF line[8] = " "
         THEN [ok |-> TRUE, name |-> RebootName, arg |-> SubSeq(line, 9, Len(line) - 1)]
    ELSE NoMatch

KillMarker ==
    <<"\n", "<", "k", "i", "l", "l", "-", "t", "i", "m", "e", "o", "u", "t", " ",
      "r", "e", "a", "c", "h", "e", "d", ">">>

---------------------------------------------------------------------------
(* The command supervisors: Client.runCommand and the loop of runScript    *)

ErrorName == <<"E", "R", "R", "O", "R">>
FatalName == <<"F", "A", "T", "A", "L">>

\* What runScript returns once its loop has ended with err (lines 740-759).
runScriptResult(err, out, errb) ==
    LET m == commandExp(LastLine(TrimSpace(out)))
    IN  IF exitStatus(err) = 213 /\ m.ok /\ m.name = ErrorName
        THEN [stdout |-> <<>>, stderr |-> <<>>, err |-> TextErr(m.arg)]
        ELSE IF exitStatus(err) = 213 /\ m.ok /\ m.name = FatalName
        THEN [stdout |-> <<>>, stderr |-> <<>>, err |-> Err("fatal", 0, m.arg)]
        ELSE IF err.kind # "nil"
        THEN [stdout |-> <<>>, stderr |-> <<>>,
              err |-> IF Len(errb) > 0 THEN outputErr(errb, err)
                      ELSE IF Len(out) > 0 THEN outputErr(out, err)
                      ELSE err]
        ELSE [stdout |-> out, stderr |-> errb, err |-> NilErr]

\* The writers runCommand is given, by caller: runPart passes both buffers,
\* Send its stdout buffer alone, ReadFile and WriteFile the stderr buffer alone.
Callers == {"runPart", "Send", "ReadFile"}

HasOut(c) == c \in {"runPart", "Send"}
HasErr(c) == c \in {"runPart", "ReadFile"}

\* The buffers the session of each caller writes to.
OutAttached(c) == c \in {"runPart", "Send", "ReadFile"}
ErrAttached(c) == c \in {"runPart", "ReadFile"}

\* What the command writes at a time, and the statuses it exits with.
Chunks == {<<"a", "\n">>, <<"a", "b", "\n">>, <<"c">>}
ExitCodes == {0, 1, 213}

MaxWrites == 2
MaxWarnTicks == 3

\* The timers of a client configured by SetWarnTimeout(w), SetKillTimeout(k)
\* after Dial.
SupArgs == {0, 1, 3, Second, 2 * Second}

InitSupervise ==
    /\ \E w \in SupArgs, k \in SupArgs :
          LET t == AfterSetKill(AfterSetWarn(DialTimers, w), k)
          IN  /\ warnTimeout = t.warn
              /\ killTimeout = t.kill
              /\ warnReq = WarnArg(w)
              /\ killReq = KillArg(k)
    /\ setterCalls = 2
    /\ SupIdle
    /\ MarkIdle
    /\ RunIdle
    /\ SendIdle
    /\ DialIdle
    /\ PartIdle
    /\ BufIdle

\* The timers are made: time.After(kill) fires at once when kill <= 0.
StartTimers(warn, kill) ==
    /\ now' = 0
    /\ warnAt' = warn
    /\ warnC' = FALSE
    /\ killC' = IF kill <= 0 THEN "ready" ELSE "pending"

\* Client.runCommand up to its select: session.Start, the waiter task, the
\* timers.  When Start fails it returns at once.
runCommandStart(c, startFails) ==
    /\ spc = "idle"
    /\ sup' = "runCommand"
    /\ caller' = c
    /\ IF startFails
       THEN /\ spc' = "returned"
            /\ result' = [result EXCEPT !.err = Err("start", 0, <<>>)]
            /\ UNCHANGED <<now, warnAt, warnC, killC, proc>>
       ELSE /\ spc' = "select"
            /\ proc' = "running"
            /\ StartTimers(warnTimeout, killTimeout)
            /\ UNCHANGED result
    /\ UNCHANGED <<notSupVars, exitCode, doneC, outbuf, errbuf, lastOut, lastErr,
                   warnLog, killLogLen, wrote, writes>>

\* runScript up to its select, called with the configured warn and kill
\* timeouts: an empty script and a failed cmd.Start return at once; else the
\* waiter task is started and the timeouts are normalised (lines 678-692).
runScriptStart(emptyScript, startFails) ==
    /\ spc = "idle"
    /\ sup' = "runScript"
    /\ caller' = "local"
    /\ IF emptyScript \/ startFails
       THEN /\ spc' = "returned"
            /\ result' = [result EXCEPT
                            !.err = IF emptyScript THEN NilErr ELSE Err("start", 0, <<>>)]
            /\ UNCHANGED <<now, warnAt, warnC, killC, proc>>
       ELSE /\ spc' = "select"
            /\ proc' = "running"
            /\ StartTimers(WarnArg(warnReq), AdjustKill(KillArg(killReq), WarnArg(warnReq)))
            /\ UNCHANGED result
    /\ UNCHANGED <<notSupVars, exitCode, doneC, outbuf, errbuf, lastOut, lastErr,
                   warnLog, killLogLen, wrote, writes>>

\* The kill timeout the running supervisor uses.
SupKill ==
    IF sup = "runCommand" THEN killTimeout
    ELSE AdjustKill(KillArg(killReq), WarnArg(warnReq))

\* The warn timeout the running supervisor uses.
SupWarn == IF sup = "runCommand" THEN warnTimeout ELSE WarnArg(warnReq)

\* The command writes a chunk to its stdout.
ProcWriteOut(chunk) ==
    /\ spc = "select" /\ proc = "running"
    /\ sup = "runScript" \/ OutAttached(caller)
    /\ writes < MaxWrites
    /\ outbuf' = outbuf \o chunk
    /\ wrote' = TRUE
    /\ writes' = writes + 1
    /\ UNCHANGED <<notSupVars, sup, caller, spc, now, warnAt, warnC, killC, proc,
                   exitCode, doneC, errbuf, lastOut, lastErr, warnLog, killLogLen,
                   result>>

\* The command writes a chunk to its stderr.
ProcWriteErr(chunk) ==
    /\ spc = "select" /\ proc = "running"
    /\ sup = "runScript" \/ ErrAttached(caller)
    /\ writes < MaxWrites
    /\ errbuf' = errbuf \o chunk
    /\ wrote' = TRUE
    /\ writes' = writes + 1
    /\ UNCHANGED <<notSupVars, sup, caller, spc, now, warnAt, warnC, killC, proc,
                   exitCode, doneC, outbuf, lastOut, lastErr, warnLog, killLogLen,
                   result>>

\* The command exits on its own.
ProcExit(code) ==
    /\ spc = "select" /\ proc = "running"
    /\ proc' = "exited"
    /\ exitCode' = code
    /\ UNCHANGED <<notSupVars, sup, caller, spc, now, warnAt, warnC, killC, doneC,
                   outbuf, errbuf, lastOut, lastErr, warnLog, killLogLen, wrote,
                   writes, result>>

\* The waiter task: Wait() returns once the command has ended, and the task
\* offers the result on the done channel.
WaitReturns ==
    /\ proc \in {"exited", "killed"}
    /\ doneC = "waiting"
    /\ doneC' = "ready"
    /\ UNCHANGED <<notSupVars, sup, caller, spc, now, warnAt, warnC, killC, proc,
                   exitCode, outbuf, errbuf, lastOut, lastErr, warnLog, killLogLen,
                   wrote, writes, result>>

\* What Wait() returned: nil for status 0, an ExitError else; a killed
\* command has no exit status (ExitStatus() is -1).
WaitErr ==
    IF proc = "killed" THEN ExitErr(-1)
    ELSE IF exitCode = 0 THEN NilErr
    ELSE ExitErr(exitCode)

\* Time passes while the supervisor is blocked in its select with no channel
\* ready, up to the next tick of the ticker or the kill deadline.
Advance ==
    /\ spc = "select"
    /\ doneC # "ready" /\ ~warnC /\ killC # "ready"
    /\ Len(warnLog) < MaxWarnTicks
    /\ LET next == IF killC = "pending" /\ SupKill < warnAt THEN SupKill ELSE warnAt
       IN  /\ now' = next
           /\ warnC' = (next = warnAt)
           /\ warnAt' = IF next = warnAt THEN warnAt + SupWarn ELSE warnAt
           /\ killC' = IF killC = "pending" /\ SupKill <= next THEN "ready" ELSE killC
    /\ UNCHANGED <<notSupVars, sup, caller, spc, proc, exitCode, doneC, outbuf,
                   errbuf, lastOut, lastErr, warnLog, killLogLen, wrote, writes,
                   result>>

\* case err := <-done of runCommand: return err.
runCommandDone ==
    /\ sup = "runCommand" /\ spc = "select"
    /\ doneC = "ready"
    /\ doneC' = "taken"
    /\ spc' = "returned"
    /\ result' = [result EXCEPT !.err = WaitErr]
    /\ UNCHANGED <<notSupVars, sup, caller, now, warnAt, warnC, killC, proc,
                   exitCode, outbuf, errbuf, lastOut, lastErr, warnLog, killLogLen,
                   wrote, writes>>

\* case <-kill of runCommand: signal the session, write the marker to stdout,
\* or to stderr when stdout is nil, and return.
runCommandKill ==
    /\ sup = "runCommand" /\ spc = "select"
    /\ killC = "ready"
    /\ killC' = "taken"
    /\ proc' = IF proc = "running" THEN "killed" ELSE proc
    /\ IF HasOut(caller)
       THEN outbuf' = outbuf \o KillMarker /\ UNCHANGED errbuf
       ELSE IF HasErr(caller)
       THEN errbuf' = errbuf \o KillMarker /\ UNCHANGED outbuf
       ELSE UNCHANGED <<outbuf, errbuf>>
    /\ wrote' = TRUE
    /\ killLogLen' = Len(warnLog)
    /\ spc' = "returned"
    /\ result' = [result EXCEPT !.err = KillTimeoutErr]
    /\ UNCHANGED <<notSupVars, sup, caller, now, warnAt, warnC, exitCode, doneC,
                   lastOut, lastErr, warnLog, writes>>

\* A buffer that is empty or ends with a newline.
WholeLines(buf) == Len(buf) = 0 \/ buf[Len(buf)] = "\n"

\* The entry a warn tick adds to the log: the warning, whether no byte was
\* written since the tick before it, whether a buffer the supervisor reads
\* held output, whether the buffers it reads held whole lines only, which
\* of the two writers are safeBuffers, their views, and the report.
WarnEntry(hasOut, hasErr) ==
    LET o == Since(outbuf, lastOut)
        e == Since(errbuf, lastErr)
    IN  [kind  |-> WarnKind(WarnReport(o.view, e.view, hasOut, hasErr)),
         quiet |-> Len(warnLog) > 0 /\ ~wrote,
         hadOutput |-> (hasOut /\ Len(outbuf) > 0) \/ (hasErr /\ Len(errbuf) > 0),
         wholeLines |-> (hasOut => WholeLines(outbuf)) /\ (hasErr => WholeLines(errbuf)),
         hasOut |-> hasOut,
         hasErr |-> hasErr,
         outView |-> IF hasOut THEN o.view ELSE <<>>,
         errView |-> IF hasErr THEN e.view ELSE <<>>,
         report |-> WarnReport(o.view, e.view, hasOut, hasErr)]

\* case <-warn.C of runCommand.
runCommandWarn ==
    /\ sup = "runCommand" /\ spc = "select"
    /\ warnC
    /\ warnC' = FALSE
    /\ warnLog' = Append(warnLog, WarnEntry(HasOut(caller), HasErr(caller)))
    /\ lastOut' = IF HasOut(caller) THEN Since(outbuf, lastOut).len ELSE lastOut
    /\ lastErr' = IF HasErr(caller) THEN Since(errbuf, lastErr).len ELSE lastErr
    /\ wrote' = FALSE
    /\ UNCHANGED <<notSupVars, sup, caller, spc, now, warnAt, killC, proc, exitCode,
                   doneC, outbuf, errbuf, killLogLen, writes, result>>

\* case err = <-done of runScript: break Loop, and what follows the loop.
runScriptDone ==
    /\ sup = "runScript" /\ spc = "select"
    /\ doneC = "ready"
    /\ doneC' = "taken"
    /\ spc' = "returned"
    /\ result' = runScriptResult(WaitErr, outbuf, errbuf)
    /\ UNCHANGED <<notSupVars, sup, caller, now, warnAt, warnC, killC, proc,
                   exitCode, outbuf, errbuf, lastOut, lastErr, warnLog, killLogLen,
                   wrote, writes>>

\* case <-kill of runScript: kill the process, write the marker to errbuf
\* when it holds output and to outbuf else, set err; the case has no break,
\* so the loop goes on.
runScriptKill ==
    /\ sup = "runScript" /\ spc = "select"
    /\ killC = "ready"
    /\ killC' = "taken"
    /\ proc' = IF proc = "running" THEN "killed" ELSE proc
    /\ IF Len(errbuf) > 0
       THEN errbuf' = errbuf \o KillMarker /\ UNCHANGED outbuf
       ELSE outbuf' = outbuf \o KillMarker /\ UNCHANGED errbuf
    /\ wrote' = TRUE
    /\ killLogLen' = Len(warnLog)
    /\ result' = [result EXCEPT !.err = KillTimeoutErr]
    /\ UNCHANGED <<notSupVars, sup, caller, spc, now, warnAt, warnC, exitCode, doneC,
                   lastOut, lastErr, warnLog, writes>>

\* case <-warn.C of runScript.
runScriptWarn ==
    /\ sup = "runScript" /\ spc = "select"
    /\ warnC
    /\ warnC' = FALSE
    /\ warnLog' = Append(warnLog, WarnEntry(TRUE, TRUE))
    /\ lastOut' = Since(outbuf, lastOut).len
    /\ lastErr' = Since(errbuf, lastErr).len
    /\ wrote' = FALSE
    /\ UNCHANGED <<notSupVars, sup, caller, spc, now, warnAt, killC, proc, exitCode,
                   doneC, outbuf, errbuf, killLogLen, writes, result>>

NextSupervise ==
    \/ \E c \in Callers, f \in BOOLEAN : runCommandStart(c, f)
    \/ \E e \in BOOLEAN, f \in BOOLEAN : runScriptStart(e, f)
    \/ \E chunk \in Chunks : ProcWriteOut(chunk)
    \/ \E chunk \in Chunks : ProcWriteErr(chunk)
    \/ \E code \in ExitCodes : ProcExit(code)
    \/ WaitReturns
    \/ Advance
    \/ runCommandDone
    \/ runCommandKill
    \/ runCommandWarn
    \/ runScriptDone
    \/ runScriptKill
    \/ runScriptWarn

SpecSupervise == InitSupervise /\ [][NextSupervise]_vars

\* bytes.HasSuffix, for the statements below.
HasSuffix(s, p) == Len(p) <= Len(s) /\ SubSeq(s, Len(s) - Len(p) + 1, Len(s)) = p

\* C8: once the kill case of a supervisor (runCommand or runScript) has run,
\* the command is killed, the marker is at the end of a sink, and the
\* supervisor has returned a kill-timeout error, without having taken the
\* completion signal and without a warning logged after the kill.
C8_KillReturnsAtOnce ==
    killC = "taken" =>
        /\ proc # "running"
        /\ HasSuffix(outbuf, KillMarker) \/ HasSuffix(errbuf, KillMarker)
        /\ spc = "returned"
        /\ result.err = KillTimeoutErr
        /\ doneC # "taken"
        /\ Len(warnLog) = killLogLen

\* C9: with warn = 50 ms and kill = 150 ms configured, a supervised command
\* that did not end on its own was killed after at least two warnings, the
\* call returned the kill-timeout error and the buffered output ends with
\* the marker.
C9_KillAfterTwoWarnings ==
    (spc = "returned" /\ proc \in {"running", "killed"} /\ warnReq = 1 /\ killReq = 3) =>
        /\ killLogLen >= 2
        /\ result.err = KillTimeoutErr
        /\ HasSuffix(outbuf, KillMarker) \/ HasSuffix(errbuf, KillMarker)

\* C10: a warn tick that follows another with no byte written to stdout or
\* stderr in between, while the buffers hold output, logs "Output unchanged",
\* whatever the length of the output.  Stated for output made of whole lines,
\* the case of the spec's scenario ("ready\n"): the claim extends it to
\* output of any length, and to output that ends in a partial line.
C10_QuietTickUnchanged ==
    \A i \in 1..Len(warnLog) :
        (warnLog[i].quiet /\ warnLog[i].hadOutput /\ warnLog[i].wholeLines)
            => warnLog[i].kind = "unchanged"

\* C21, as the claim words it: when stderr's view is a prefix of stdout's
\* view, or stdout's view is empty, the report is stderr's view alone;
\* otherwise it is stdout's view, a blank line, and stderr's view.
C21_ReportAsClaimed ==
    \A i \in 1..Len(warnLog) :
        (warnLog[i].hasOut /\ warnLog[i].hasErr) =>
            LET o == warnLog[i].outView
                e == warnLog[i].errView
            IN  warnLog[i].report =
                    IF (Len(e) <= Len(o) /\ e = SubSeq(o, 1, Len(e))) \/ o = <<>> THEN e
                    ELSE o \o <<"\n", "\n">> \o e

\* C21: at a warn tick that reads both buffers, the report is stderr's
\* view alone when stdout's view is empty or is a prefix of stderr's view;
\* otherwise it is stdout's view, a blank line and stderr's view when
\* stderr's view is not empty, and stdout's view alone when it is.
C21_Report ==
    \A i \in 1..Len(warnLog) :
        (warnLog[i].hasOut /\ warnLog[i].hasErr) =>
            LET o == warnLog[i].outView
                e == warnLog[i].errView
            IN  warnLog[i].report =
                    IF o = <<>> \/ (Len(o) <= Len(e) /\ o = SubSeq(e, 1, Len(o))) THEN e
                    ELSE IF e # <<>> THEN o \o <<"\n", "\n">> \o e
                    ELSE o

\* C21 witness: three warn ticks, one for each form of the report: stdout's
\* view a proper prefix of stderr's, the two views joined, stdout alone.
C21_Witness ==
    /\ \E i \in 1..Len(warnLog) :
          /\ warnLog[i].outView = <<"a">>
          /\ warnLog[i].errView = <<"a", "b">>
          /\ warnLog[i].report = <<"a", "b">>
    /\ \E i \in 1..Len(warnLog) :
          /\ warnLog[i].outView # <<>> /\ warnLog[i].errView # <<>>
          /\ warnLog[i].report = warnLog[i].outView \o <<"\n", "\n">> \o warnLog[i].errView
    /\ \E i \in 1..Len(warnLog) :
          /\ warnLog[i].hasErr
          /\ warnLog[i].outView # <<>> /\ warnLog[i].errView = <<>>
          /\ warnLog[i].report = warnLog[i].outView

\* C22: no task a supervisor spawned stays blocked on a channel: once the
\* supervisor has returned, on the kill path too, the waiter task is not
\* left sending the result of Wait() on done, which nobody receives from
\* any more.
C22_WaiterEnds ==
    spc = "returned" => doneC # "ready"

---------------------------------------------------------------------------
(* What runPart and runScript make of a command that has ended             *)

traceOutput == 0
combinedOutput == 1
splitOutput == 2
shellOutput == 3

Modes == {traceOutput, combinedOutput, splitOutput, shellOutput}

\* const errmsg of runPart
errmsg ==
    <<"m", "e", "s", "g", ":", " ", "t", "t", "y", "n", "a", "m", "e", " ",
      "f", "a", "i", "l", "e", "d", ":", " ", "I", "n", "a", "p", "p", "r",
      "o", "p", "r", "i", "a", "t", "e", " ", "i", "o", "c", "t", "l", " ",
      "f", "o", "r", " ", "d", "e", "v", "i", "c", "e">>

\* &rebootError{key}
RebootErr(key) == Err("reboot", 0, key)

\* A faulty variant of RebootRequested: the exit status is not looked at.
RebootRequestedAnyStatus(err, stdout) ==
    err.kind = "exit" /\ rebootExp(LastLine(TrimSpace(stdout))).ok

\* The gate of runPart's reboot return: err is an *ssh.ExitError with status
\* 213 and the last line of the trimmed stdout matches rebootExp.
RebootRequested(err, stdout) ==
    /\ err.kind = "exit" /\ err.status = 213
    /\ rebootExp(LastLine(TrimSpace(stdout))).ok

\* A faulty variant of RebootOutput: the earlier output is lost.
RebootOutputDropsPrevious(previous, stdout) == stdout

\* runPart's reboot return: append(previous, stdout.Bytes()...).
RebootOutput(previous, stdout) == previous \o stdout

\* What runPart returns once the command has ended with err (lines 399-424).
runPartResult(mode, previous, err, stdout, stderr) ==
    IF RebootRequested(err, stdout)
    THEN [output |-> RebootOutput(previous, stdout),
          err |-> RebootErr(rebootExp(LastLine(TrimSpace(stdout))).arg)]
    ELSE LET raw == IF err.kind = "nil" \/ mode # splitOutput THEN stdout ELSE stderr
             output == previous \o TrimSpace(TrimPrefix(raw, errmsg))
         IN  IF err.kind # "nil"
             THEN [output |-> <<>>, err |-> outputErr(output, err)]
             ELSE [output |-> output, err |-> NilErr]

\* Lines a script may print: plain text, the markers, and near-markers.
SampleLines ==
    {<<"a">>,
     <<"<", "R", "E", "B", "O", "O", "T", ">">>,
     <<"<", "R", "E", "B", "O", "O", "T", " ", "k", ">">>,
     <<"<", "F", "A", "T", "A", "L", " ", "m", ">">>,
     <<"<", "E", "R", "R", "O", "R", " ", "m", ">">>,
     <<"<", "E", "R", "R", "O", "R", ">">>,
     <<"x", "<", "R", "E", "B", "O", "O", "T", ">">>}

MaxLines == 2

\* The texts of 1 to n sample lines, joined by newlines.
RECURSIVE JoinedLines(_)
JoinedLines(n) ==
    IF n = 0 THEN {}
    ELSE SampleLines \cup
         {t \o <<"\n">> \o l : t \in JoinedLines(n - 1), l \in SampleLines}

\* The outputs drawn: nothing, up to MaxLines lines with or without the final
\* newline, and a line behind the message runPart strips.
SampleOutputs ==
    {<<>>} \cup JoinedLines(MaxLines)
           \cup {t \o <<"\n">> : t \in JoinedLines(MaxLines)}
           \cup {errmsg \o <<"\n", "a", "\n">>}

\* The errors Client.runCommand and session.Run end with.
RemoteErrs == {NilErr, ExitErr(1), ExitErr(213), KillTimeoutErr}

\* The errors cmd.Wait() ends with; -1 is the status of a killed process.
LocalErrs == {NilErr, ExitErr(1), ExitErr(213), ExitErr(-1)}

SampleStderr == {<<>>, <<"e", "\n">>}
SamplePrevious == {<<>>, <<"p", "\n">>}

\* The inputs drawn: a mode, the buffers and the error the command ended
\* with.  In shell mode the buffers stay empty (the session writes to
\* os.Stdout); stderr is buffered apart in split mode alone.
InitMarker ==
    /\ InitClient
    /\ SupIdle
    /\ mkPc = "input"
    /\ mkMode \in Modes
    /\ mkErr \in RemoteErrs \cup LocalErrs
    /\ mkStdout \in SampleOutputs
    /\ mkStderr \in SampleStderr
    /\ mkPrevious \in SamplePrevious
    /\ mkMode = shellOutput => mkStdout = <<>>
    /\ mkMode # splitOutput => mkStderr = <<>>
    /\ mkResult = [output |-> <<>>, stdout |-> <<>>, stderr |-> <<>>, err |-> NilErr]
    /\ RunIdle
    /\ SendIdle
    /\ DialIdle
    /\ PartIdle
    /\ BufIdle

\* runPart from the end of the command on; a kill-timeout leaves the marker
\* at the end of stdout.
ApplyRunPart ==
    /\ mkPc = "input"
    /\ mkErr \in RemoteErrs
    /\ mkMode = shellOutput => mkErr # KillTimeoutErr
    /\ LET stdout == IF mkErr = KillTimeoutErr THEN mkStdout \o KillMarker ELSE mkStdout
           r == runPartResult(mkMode, mkPrevious, mkErr, stdout, mkStderr)
       IN  /\ mkStdout' = stdout
           /\ mkResult' = [output |-> r.output, stdout |-> <<>>, stderr |-> <<>>,
                           err |-> r.err]
    /\ mkPc' = "runPart"
    /\ UNCHANGED <<notMarkVars, mkMode, mkErr, mkStderr, mkPrevious>>

\* runScript from the end of its loop on.  It has no shell mode.
ApplyRunScript ==
    /\ mkPc = "input"
    /\ mkErr \in LocalErrs
    /\ mkMode # shellOutput
    /\ LET r == runScriptResult(mkErr, mkStdout, mkStderr)
       IN  mkResult' = [output |-> <<>>, stdout |-> r.stdout, stderr |-> r.stderr,
                        err |-> r.err]
    /\ mkPc' = "runScript"
    /\ UNCHANGED <<notMarkVars, mkMode, mkErr, mkStdout, mkStderr, mkPrevious>>

NextMarker ==
    \/ ApplyRunPart
    \/ ApplyRunScript

SpecMarker == InitMarker /\ [][NextMarker]_vars

\* A line that is the marker <name> or <name arg>.
IsMarker(line, name) ==
    \/ line = <<"<">> \o name \o <<">">>
    \/ /\ Len(line) >= Len(name) + 3
       /\ SubSeq(line, 1, Len(name) + 2) = <<"<">> \o name \o <<" ">>
       /\ line[Len(line)] = ">"

\* The argument of a marker line.
MarkerArg(line, name) ==
    IF line = <<"<">> \o name \o <<">">> THEN <<>>
    ELSE SubSeq(line, Len(name) + 3, Len(line) - 1)

\* The text after the last newline of t is line.
IsLastLineOf(line, t) ==
    /\ ~ContainsByte(line, "\n")
    /\ \/ t = line
       \/ HasSuffix(t, <<"\n">> \o line)

\* The status is 213 and the marker <name ...> is the last line of the
\* trimmed stdout.
MarkerAtEnd(err, stdout, name) ==
    /\ err = ExitErr(213)
    /\ LET t == TrimSpace(stdout)
       IN  \E i \in 0..Len(t) :
              /\ IsLastLineOf(SubSeq(t, i + 1, Len(t)), t)
              /\ IsMarker(SubSeq(t, i + 1, Len(t)), name)

\* The argument of the marker MarkerAtEnd finds.
MarkerArgAtEnd(stdout, name) ==
    LET t == TrimSpace(stdout)
        i == CHOOSE i \in 0..Len(t) :
                 IsLastLineOf(SubSeq(t, i + 1, Len(t)), t)
                 /\ IsMarker(SubSeq(t, i + 1, Len(t)), name)
    IN  MarkerArg(SubSeq(t, i + 1, Len(t)), name)

\* C5: a marker is acted upon exactly when the exit status is 213 and the
\* marker is the last line of the trimmed stdout.  runPart returns a reboot
\* request (with the marker's key) in that case for <REBOOT ...> and in no
\* other; runScript returns a FatalError for <FATAL msg> in that case and in
\* no other, and the error msg for <ERROR msg>; in every other case the
\* result is the ordinary one: the output and no error when the command
\* succeeded, no output and the command's error or an error made of the
\* output when it failed.
C5_MarkerGate ==
    /\ mkPc = "runPart" =>
          IF MarkerAtEnd(mkErr, mkStdout, RebootName)
          THEN mkResult.err = RebootErr(MarkerArgAtEnd(mkStdout, RebootName))
          ELSE /\ mkResult.err.kind # "reboot"
               /\ mkErr = NilErr => mkResult.err = NilErr
               /\ mkErr # NilErr =>
                     /\ mkResult.output = <<>>
                     /\ mkResult.err.kind \in {"text", mkErr.kind}
    /\ mkPc = "runScript" =>
          IF MarkerAtEnd(mkErr, mkStdout, FatalName)
          THEN mkResult.err = Err("fatal", 0, MarkerArgAtEnd(mkStdout, FatalName))
          ELSE IF MarkerAtEnd(mkErr, mkStdout, ErrorName)
          THEN mkResult.err = TextErr(MarkerArgAtEnd(mkStdout, ErrorName))
          ELSE /\ mkResult.err.kind # "fatal"
               /\ mkErr = NilErr =>
                     /\ mkResult.err = NilErr
                     /\ mkResult.stdout = mkStdout /\ mkResult.stderr = mkStderr
               /\ mkErr # NilErr =>
                     /\ mkResult.stdout = <<>> /\ mkResult.stderr = <<>>
                     /\ mkResult.err =
                           IF mkStderr # <<>> THEN outputErr(mkStderr, mkErr)
                           ELSE outputErr(mkStdout, mkErr)

\* C5 witness: runPart saw status 213 with <REBOOT k> as the last of two
\* lines and returned a reboot request with key k.
C5_Witness ==
    /\ mkPc = "runPart"
    /\ mkErr = ExitErr(213)
    /\ mkStdout = <<"a", "\n", "<", "R", "E", "B", "O", "O", "T", " ", "k", ">", "\n">>
    /\ mkResult.err = RebootErr(<<"k">>)

---------------------------------------------------------------------------
(* The reboot loop: Client.run                                             *)

maxReboots == 10

Digits == <<"0", "1", "2", "3", "4", "5", "6", "7", "8", "9">>

\* strconv.Itoa, for n >= 0.
RECURSIVE Itoa(_)
Itoa(n) ==
    IF n < 10 THEN <<Digits[n + 1]>>
    ELSE Itoa(n \div 10) \o <<Digits[(n % 10) + 1]>>

\* env.Set(k, v)
EnvSet(e, k, v) == {p \in e : p[1] # k} \cup {<<k, v>>}

\* env.Get(k)
EnvGet(e, k) ==
    IF \E p \in e : p[1] = k THEN (CHOOSE p \in e : p[1] = k)[2] ELSE <<>>

\* A faulty variant of RebootKeyOf: the key of the marker is ignored.
RebootKeyOfCounter(key, n) == Itoa(n)

\* if rebootKey == "" { rebootKey = strconv.Itoa(reboot) }
RebootKeyOf(key, n) == IF key = <<>> THEN Itoa(n) ELSE key

\* A faulty variant of IsRebootError: a request without key is not seen.
IsRebootErrorWithKey(err) == err.kind = "reboot" /\ err.text # <<>>

\* rerr, ok := err.(*rebootError)
IsRebootError(err) == err.kind = "reboot"

\* How a runPart call goes: it fails before the command runs (fail names the
\* step), or the command runs and ends with err, stdout and stderr.
Ran(err, stdout, stderr) ==
    [fail |-> "none", err |-> err, stdout |-> stdout, stderr |-> stderr]

Failed(step) == [fail |-> step, err |-> NilErr, stdout |-> <<>>, stderr |-> <<>>]

RunOutputs ==
    {<<>>,
     <<"a", "\n">>,
     <<"a", "\n", "<", "R", "E", "B", "O", "O", "T", " ", "k", ">", "\n">>,
     <<"<", "R", "E", "B", "O", "O", "T", ">", "\n">>}

\* The ways a runPart call in mode m can go.  NewSession may fail in every
\* mode, StdinPipe in the modes that pipe the script, the terminal calls in
\* shell mode, where the buffers stay empty.
PartOutcomes(m) ==
    {Failed("NewSession")}
    \cup (IF m = shellOutput
          THEN {Failed("GetSize"), Failed("RequestPty"), Failed("MakeRaw")}
               \cup {Ran(e, <<>>, <<>>) : e \in {NilErr, ExitErr(1), ExitErr(213)}}
          ELSE {Failed("StdinPipe")}
               \cup {Ran(e, o, s) : e \in {NilErr, ExitErr(1), ExitErr(213)},
                                    o \in RunOutputs,
                                    s \in IF m = splitOutput THEN SampleStderr ELSE {<<>>}}
               \cup {Ran(KillTimeoutErr, o \o KillMarker, <<>>) : o \in {<<>>, <<"a", "\n">>}})

\* Client.runPart.
runPart(empty, m, previous, how) ==
    IF empty THEN [output |-> <<>>, err |-> NilErr]
    ELSE IF how.fail # "none" THEN [output |-> <<>>, err |-> Err(how.fail, 0, <<>>)]
    ELSE runPartResult(m, previous, how.err, how.stdout, how.stderr)

RebootVar == <<"S", "P", "R", "E", "A", "D", "_", "R", "E", "B", "O", "O", "T">>

\* The Environment a caller passes.  (A nil one is replaced by a new, empty
\* one, which run then treats alike.)
CallerEnvs == {{<<<<"A">>, <<"1">>>>}}

Init ==
    /\ InitClient
    /\ SupIdle
    /\ MarkIdle
    /\ RunIdle
    /\ SendIdle
    /\ DialIdle
    /\ PartIdle
    /\ BufIdle

\* run is called (by Run, Output, CombinedOutput, Trace or Shell).
Call(m, e, empty) ==
    /\ pc = "idle"
    /\ pc' = "runPart"
    /\ runMode' = m
    /\ env' = e
    /\ envBefore' = e
    /\ scriptEmpty' = empty
    /\ rebootKey' = <<>>
    /\ reboot' = 0
    /\ runOutput' = <<>>
    /\ UNCHANGED <<notRunVars, attempts, reboots, ret, probe>>

\* One turn of the loop up to the reboot command: the key, env.Set, runPart,
\* and what run makes of runPart's result.
RunPartStep(how) ==
    /\ pc = "runPart"
    /\ LET key == RebootKeyOf(rebootKey, reboot)
           r == runPart(scriptEmpty, runMode, runOutput, how)
       IN  /\ env' = EnvSet(env, RebootVar, key)
           /\ attempts' =
                 IF ~scriptEmpty /\ how.fail = "none"
                 THEN Append(attempts,
                             [key |-> EnvGet(env', RebootVar), stdout |-> how.stdout,
                              err |-> how.err])
                 ELSE attempts
           /\ IF ~IsRebootError(r.err)
              THEN /\ pc' = "returned"
                   /\ ret' = r
                   /\ runOutput' = r.output
                   /\ rebootKey' = key
              ELSE IF reboot > maxReboots
              THEN /\ pc' = "returned"
                   /\ ret' = [output |-> <<>>, err |-> Err("too-many-reboots", 0, <<>>)]
                   /\ runOutput' = r.output
                   /\ rebootKey' = key
              ELSE /\ pc' = "reboot"
                   /\ rebootKey' = r.err.text
                   /\ runOutput' = r.output \o <<"\n">>
                   /\ UNCHANGED ret
    /\ UNCHANGED <<notRunVars, runMode, scriptEmpty, reboot, reboots, envBefore, probe>>

\* if err != nil { err = c.Run("echo should-have-disconnected", "", nil) }:
\* the probe is run when the reboot command returned an error.
ProbeRuns(ok1) == ~ok1

\* The reboot command: Run("reboot & sleep"), then the probe when that call
\* returned an error, then the return when err is nil.  ok1 and ok2 say
\* whether each call returned nil, timedout whether the kill timeout has
\* passed by then.  A call that ends with an error is what a target that
\* goes down produces, and counts as a reboot.
RebootStep(ok1, ok2, timedout) ==
    /\ pc = "reboot"
    /\ probe' = [done |-> TRUE, ok |-> ok1, probed |-> ProbeRuns(ok1)]
    /\ LET errNil == IF ProbeRuns(ok1) THEN ok2 ELSE ok1
       IN  IF errNil
           THEN /\ pc' = "returned"
                /\ ret' = [output |-> <<>>,
                           err |-> IF timedout THEN Err("reboot-timeout", 0, <<>>)
                                   ELSE Err("reboot-failed", 0, <<>>)]
                /\ UNCHANGED reboots
           ELSE /\ pc' = "dial"
                /\ reboots' = reboots + 1
                /\ UNCHANGED ret
    /\ UNCHANGED <<notRunVars, runMode, scriptEmpty, env, reboot, rebootKey, runOutput,
                   attempts, envBefore>>

\* dialOnReboot returns: nil, or the kill-timeout error of one of its loops.
DialStep(dialed) ==
    /\ pc = "dial"
    /\ IF dialed
       THEN /\ pc' = "runPart"
            /\ reboot' = reboot + 1
            /\ UNCHANGED ret
       ELSE /\ pc' = "returned"
            /\ ret' = [output |-> <<>>, err |-> Err("dial-timeout", 0, <<>>)]
            /\ UNCHANGED reboot
    /\ UNCHANGED <<notRunVars, runMode, scriptEmpty, env, rebootKey, runOutput, attempts,
                   reboots, envBefore, probe>>

Next ==
    \/ \E m \in Modes, e \in CallerEnvs, empty \in BOOLEAN : Call(m, e, empty)
    \/ \E how \in PartOutcomes(runMode) : RunPartStep(how)
    \/ \E ok1 \in BOOLEAN, ok2 \in BOOLEAN, timedout \in BOOLEAN :
          RebootStep(ok1, ok2, timedout)
    \/ \E dialed \in BOOLEAN : DialStep(dialed)

Spec == Init /\ [][Next]_vars

\* The attempt ended with a reboot request: status 213 and <REBOOT ...> as
\* the last line of the trimmed stdout.
AskedReboot(a) == MarkerAtEnd(a.err, a.stdout, RebootName)

\* C1: run never returns a reboot request to its caller: whatever run
\* returns, the error is not a *rebootError.
C1_NoRebootErrorReturned ==
    pc = "returned" => ret.err.kind # "reboot"

\* C1 witness: run returned after the script asked for a reboot twice and
\* then failed with an ordinary error.
C1_Witness ==
    /\ pc = "returned"
    /\ Len(attempts) = 3
    /\ AskedReboot(attempts[1]) /\ AskedReboot(attempts[2])
    /\ attempts[3].err = ExitErr(1)
    /\ ret.err.kind \in {"exit", "text"}

\* C2: one call of run reboots the target at most maxReboots times, so the
\* script is executed at most maxReboots + 1 times.
C2_AtMostMaxReboots ==
    /\ reboots <= maxReboots
    /\ Len(attempts) <= maxReboots + 1

\* C3: SPREAD_REBOOT is "0" on the first attempt; on a later attempt it is
\* the key of the <REBOOT key> marker that ended the attempt before, or the
\* decimal index of the attempt when that marker had no key.
C3_RebootVariable ==
    \A n \in 1..Len(attempts) :
        attempts[n].key =
            IF n = 1 THEN <<"0">>
            ELSE LET key == MarkerArgAtEnd(attempts[n - 1].stdout, RebootName)
                 IN  IF key # <<>> THEN key ELSE Itoa(n - 1)

\* C3 witness: the third attempt of a call that saw <REBOOT k> and then
\* <REBOOT> ran with SPREAD_REBOOT=2, the second with SPREAD_REBOOT=k.
C3_Witness ==
    /\ Len(attempts) = 3
    /\ attempts[1].key = <<"0">>
    /\ attempts[2].key = <<"k">>
    /\ attempts[3].key = <<"2">>

\* The stdout of the attempts before the last, each followed by a newline.
RECURSIVE EarlierOutput(_)
EarlierOutput(n) ==
    IF n = 0 THEN <<>>
    ELSE EarlierOutput(n - 1) \o attempts[n].stdout \o <<"\n">>

\* C4: when run returns successfully after reboots, the output it returns
\* is the stdout of every earlier attempt in order, each followed by a
\* newline, and then the output of the last attempt.
C4_OutputAcrossReboots ==
    (pc = "returned" /\ ret.err = NilErr /\ Len(attempts) >= 2) =>
        ret.output =
            EarlierOutput(Len(attempts) - 1)
            \o TrimSpace(TrimPrefix(attempts[Len(attempts)].stdout, errmsg))

\* C4 witness: run returned successfully after two reboots with the three
\* outputs in order.
C4_Witness ==
    /\ pc = "returned"
    /\ ret.err = NilErr
    /\ Len(attempts) = 3
    /\ ret.output =
          <<"a", "\n", "<", "R", "E", "B", "O", "O", "T", " ", "k", ">", "\n", "\n">>
          \o <<"<", "R", "E", "B", "O", "O", "T", ">", "\n", "\n">>
          \o <<"a">>

\* C15: the caller's Environment is read-only for run: when run has
\* returned, it holds the keys and values it held at the call.
C15_EnvironmentUnchanged ==
    pc = "returned" => env = envBefore

\* C18: in the reboot step, "echo should-have-disconnected" is run only
\* when the reboot command returned nil; when the reboot command failed, no
\* probe is run and run goes on to dialOnReboot.
C18_ProbeAfterNil ==
    probe.done =>
        /\ probe.probed => probe.ok
        /\ ~probe.ok => (~probe.probed /\ pc # "returned")

---------------------------------------------------------------------------
(* safeBuffer: Write, Bytes, Since and Len called by concurrent tasks       *)

Tasks == {"t1", "t2"}

MaxCalls == 4

\* The data of a Write call.
WriteData == {<<"\n">>, <<"a", "\n">>, <<"a", "b", "\n", "c">>}

NoResult == [kind |-> "none", data |-> <<>>, len |-> 0, at |-> <<>>, offset |-> 0]

TaskIdle == [pc |-> "idle", op |-> "none", data |-> <<>>, offset |-> 0, n |-> 0,
             res |-> NoResult]

\* A faulty variant of MuFree: the mutex is not looked at.
MuNotChecked(mu) == TRUE

\* sbuf.mu.Lock() goes through when no task holds the mutex.
MuFree(mu) == mu = "free"

InitBuffer ==
    /\ InitClient
    /\ SupIdle
    /\ MarkIdle
    /\ RunIdle
    /\ SendIdle
    /\ DialIdle
    /\ PartIdle
    /\ sbBuf = <<>>
    /\ sbMu = "free"
    /\ sbTask = [t \in Tasks |-> TaskIdle]
    /\ sbOrder = <<>>
    /\ sbCalls = 0

\* A task calls one of the four methods; Since is given an offset that is
\* at most the length of the buffer.
sbCall(t, op, data, offset) ==
    /\ sbTask[t].pc = "idle"
    /\ sbCalls < MaxCalls
    /\ sbCalls' = sbCalls + 1
    /\ sbTask' = [sbTask EXCEPT ![t] = [pc |-> "lock", op |-> op, data |-> data,
                                        offset |-> offset, n |-> 0, res |-> NoResult]]
    /\ UNCHANGED <<notBufVars, sbBuf, sbMu, sbOrder>>

\* sbuf.mu.Lock()
sbLock(t) ==
    /\ sbTask[t].pc = "lock"
    /\ MuFree(sbMu)
    /\ sbMu' = t
    /\ sbTask' = [sbTask EXCEPT ![t].pc = "body"]
    /\ sbOrder' = IF sbTask[t].op = "Write" THEN Append(sbOrder, sbTask[t].data)
                  ELSE sbOrder
    /\ UNCHANGED <<notBufVars, sbBuf, sbCalls>>

\* sbuf.buf.Write(data): the bytes are copied into the buffer one after the
\* other; the call has returned once the last is in.
Write(t) ==
    /\ sbTask[t].pc = "body" /\ sbTask[t].op = "Write"
    /\ LET n == sbTask[t].n + 1
           data == sbTask[t].data
       IN  /\ sbBuf' = Append(sbBuf, data[n])
           /\ sbTask' = [sbTask EXCEPT
                            ![t].n = n,
                            ![t].pc = IF n = Len(data) THEN "unlock" ELSE "body",
                            ![t].res = IF n = Len(data)
                                       THEN [NoResult EXCEPT !.kind = "Write",
                                                             !.len = Len(data)]
                                       ELSE NoResult]
    /\ UNCHANGED <<notBufVars, sbMu, sbOrder, sbCalls>>

\* data := sbuf.buf.Bytes()
Bytes(t) ==
    /\ sbTask[t].pc = "body" /\ sbTask[t].op = "Bytes"
    /\ sbTask' = [sbTask EXCEPT ![t].pc = "unlock",
                                ![t].res = [NoResult EXCEPT !.kind = "Bytes",
                                                            !.data = sbBuf,
                                                            !.at = sbBuf]]
    /\ UNCHANGED <<notBufVars, sbBuf, sbMu, sbOrder, sbCalls>>

\* l := sbuf.buf.Len()
BufLen(t) ==
    /\ sbTask[t].pc = "body" /\ sbTask[t].op = "Len"
    /\ sbTask' = [sbTask EXCEPT ![t].pc = "unlock",
                                ![t].res = [NoResult EXCEPT !.kind = "Len",
                                                            !.len = Len(sbBuf),
                                                            !.at = sbBuf]]
    /\ UNCHANGED <<notBufVars, sbBuf, sbMu, sbOrder, sbCalls>>

\* The body of Since, run with the mutex held.
BufSince(t) ==
    /\ sbTask[t].pc = "body" /\ sbTask[t].op = "Since"
    /\ LET r == Since(sbBuf, sbTask[t].offset)
       IN  sbTask' = [sbTask EXCEPT ![t].pc = "unlock",
                                    ![t].res = [kind |-> "Since", data |-> r.view,
                                                len |-> r.len, at |-> sbBuf,
                                                offset |-> sbTask[t].offset]]
    /\ UNCHANGED <<notBufVars, sbBuf, sbMu, sbOrder, sbCalls>>

\* sbuf.mu.Unlock(), deferred in Since, and the return.
sbUnlock(t) ==
    /\ sbTask[t].pc = "unlock"
    /\ sbMu' = "free"
    /\ sbTask' = [sbTask EXCEPT ![t].pc = "idle"]
    /\ UNCHANGED <<notBufVars, sbBuf, sbOrder, sbCalls>>

NextBuffer ==
    \/ \E t \in Tasks, data \in WriteData : sbCall(t, "Write", data, 0)
    \/ \E t \in Tasks : sbCall(t, "Bytes", <<>>, 0)
    \/ \E t \in Tasks : sbCall(t, "Len", <<>>, 0)
    \/ \E t \in Tasks, offset \in 0..Len(sbBuf) : sbCall(t, "Since", <<>>, offset)
    \/ \E t \in Tasks : sbLock(t)
    \/ \E t \in Tasks : Write(t)
    \/ \E t \in Tasks : Bytes(t)
    \/ \E t \in Tasks : BufLen(t)
    \/ \E t \in Tasks : BufSince(t)
    \/ \E t \in Tasks : sbUnlock(t)

SpecBuffer == InitBuffer /\ [][NextBuffer]_vars

\* The position (from 1) of the last newline among the first offset bytes
\* of data, 0 when there is none.
LastNewlineBefore(data, offset) ==
    LET nl == {j \in 1..offset : data[j] = "\n"}
    IN  IF nl = {} THEN 0 ELSE CHOOSE j \in nl : \A k \in nl : k <= j

\* C11: for every buffer content and offset <= Len, Since(offset) returns
\* Len() as the new offset, and its view is, trimmed, "(...)" followed by
\* the buffer from the last newline at or before offset-1 on (a newline at
\* any index from 0 to offset-1), and the whole buffer when there is none.
C11_SinceView ==
    \A t \in DOMAIN sbTask :
        sbTask[t].res.kind = "Since" =>
            LET r == sbTask[t].res
                j == LastNewlineBefore(r.at, r.offset)
            IN  /\ r.len = Len(r.at)
                /\ r.data = TrimSpace(IF j = 0 THEN r.at
                                      ELSE unchangedMarker
                                           \o SubSeq(r.at, j, Len(r.at)))

\* The first k writes, in the order they took the lock, concatenated.
RECURSIVE WritesUpTo(_)
WritesUpTo(k) == IF k = 0 THEN <<>> ELSE WritesUpTo(k - 1) \o sbOrder[k]

\* C16: the calls on one safeBuffer are atomic with respect to each other:
\* one task at a time is between Lock and Unlock, the buffer is the writes
\* in the order they took the lock, and every Bytes snapshot and every
\* length returned is that of some number of whole writes in that order,
\* hence of a prefix of the final content.
C16_AtomicCalls ==
    /\ Cardinality({t \in DOMAIN sbTask : sbTask[t].pc \in {"body", "unlock"}}) <= 1
    /\ (\A t \in DOMAIN sbTask : ~(sbTask[t].pc = "body" /\ sbTask[t].op = "Write"))
          => sbBuf = WritesUpTo(Len(sbOrder))
    /\ \A t \in DOMAIN sbTask :
          LET r == sbTask[t].res
          IN  /\ r.kind = "Bytes" =>
                    /\ \E k \in 0..Len(sbOrder) : r.data = WritesUpTo(k)
                    /\ HasPrefix(sbBuf, r.data)
              /\ r.kind \in {"Len", "Since"} =>
                    /\ \E k \in 0..Len(sbOrder) : r.len = Len(WritesUpTo(k))
                    /\ r.len <= Len(sbBuf)

\* C16 witness: a Bytes call that ran between two writes returned the first
\* write, and the second write is in the buffer after it.
C16_Witness ==
    /\ sbMu = "free"
    /\ Len(sbOrder) = 2
    /\ \E t \in DOMAIN sbTask :
          /\ sbTask[t].res.kind = "Bytes"
          /\ sbTask[t].res.data = WritesUpTo(1)
    /\ sbBuf = WritesUpTo(2)
    /\ sbCalls = MaxCalls

---------------------------------------------------------------------------
(* runPart: the session, the terminal lock and the writer task              *)

\* The runPart calls in flight in the process.
PartCalls == {"p1", "p2"}

\* How the remote command of a call that is not in shell mode may end.
PartCommands ==
    {Ran(NilErr, <<"a", "\n">>, <<>>),
     Ran(ExitErr(1), <<"a", "\n">>, <<>>),
     Ran(ExitErr(213), <<"<", "R", "E", "B", "O", "O", "T", ">", "\n">>, <<>>),
     Ran(KillTimeoutErr, <<"a", "\n">> \o KillMarker, <<>>)}

\* How session.Run may end in shell mode, where nothing is captured.
ShellCommands == {Ran(NilErr, <<>>, <<>>), Ran(ExitErr(1), <<>>, <<>>)}

NoCall ==
    [pc |-> "idle", mode |-> 0, sess |-> "none", opened |-> 0, stdin |-> "none",
     errch |-> <<>>, writer |-> "none", cmd |-> Ran(NilErr, <<>>, <<>>),
     ran |-> FALSE, reads |-> 0,
     result |-> [output |-> <<>>, err |-> NilErr]]

\* A faulty variant of sessionClose: the session is left as it is.
sessionLeftOpen(sess) == sess

\* defer session.Close()
sessionClose(sess) == IF sess = "open" THEN "closed" ELSE sess

\* The call returns r: the deferred stdin.Close() and session.Close() run.
Return(c, r) ==
    [c EXCEPT !.pc = "returned",
              !.stdin = IF c.stdin = "open" THEN "closed" ELSE c.stdin,
              !.sess = sessionClose(c.sess),
              !.result = r]

\* A faulty variant of AfterErrch: the value read is returned as the error.
ErrchReturned(output, v) ==
    IF v = "nil" THEN [output |-> output, err |-> NilErr]
    ELSE [output |-> <<>>, err |-> Err("write", 0, <<>>)]

\* if err := <-errch; err != nil { printf(...) }; return output, nil
AfterErrch(output, v) == [output |-> output, err |-> NilErr]

InitPart ==
    /\ InitClient
    /\ SupIdle
    /\ MarkIdle
    /\ RunIdle
    /\ SendIdle
    /\ DialIdle
    /\ BufIdle
    /\ term = "free"
    /\ part = [p \in PartCalls |-> NoCall]

\* runPart is called: an empty script returns at once, else NewSession is
\* called, and the session is open when it succeeds.
partStart(p, mode, empty, sessionOk) ==
    /\ part[p].pc = "idle"
    /\ part' = [part EXCEPT ![p] =
                   IF empty
                   THEN Return([NoCall EXCEPT !.mode = mode], [output |-> <<>>, err |-> NilErr])
                   ELSE IF ~sessionOk
                   THEN Return([NoCall EXCEPT !.mode = mode],
                               [output |-> <<>>, err |-> Err("NewSession", 0, <<>>)])
                   ELSE [NoCall EXCEPT !.mode = mode, !.pc = "prepare",
                                       !.sess = "open", !.opened = 1]]
    /\ UNCHANGED <<notPartVars, term>>

\* From make(chan error, 2) to the end of the switch: the stdin pipe and the
\* writer task, or, in shell mode, errch <- nil, the terminal size and the
\* pseudo terminal.  fail names the call that fails, "none" when none does.
partPrepare(p, fail) ==
    /\ part[p].pc = "prepare"
    /\ fail \in IF part[p].mode = shellOutput THEN {"none", "GetSize", "RequestPty"}
                ELSE {"none", "StdinPipe"}
    /\ LET c == part[p]
           piped == IF c.mode = shellOutput
                    THEN [c EXCEPT !.errch = <<"nil">>]
                    ELSE IF fail = "StdinPipe" THEN c
                    ELSE [c EXCEPT !.stdin = "open", !.writer = "write"]
       IN  part' = [part EXCEPT ![p] =
                       IF fail # "none"
                       THEN Return(piped, [output |-> <<>>, err |-> Err(fail, 0, <<>>)])
                       ELSE [piped EXCEPT !.pc = IF c.mode = shellOutput THEN "termLock"
                                                 ELSE "runCommand"]]
    /\ UNCHANGED <<notPartVars, term>>

\* termLock()
partTermLock(p) ==
    /\ part[p].pc = "termLock"
    /\ term = "free"
    /\ term' = p
    /\ part' = [part EXCEPT ![p].pc = "MakeRaw"]
    /\ UNCHANGED notPartVars

\* terminal.MakeRaw(0) and, when it fails, the return.
partMakeRaw(p, ok) ==
    /\ part[p].pc = "MakeRaw"
    /\ part' = [part EXCEPT ![p] =
                   IF ok THEN [part[p] EXCEPT !.pc = "sessionRun"]
                   ELSE Return(part[p], [output |-> <<>>, err |-> Err("MakeRaw", 0, <<>>)])]
    /\ UNCHANGED <<notPartVars, term>>

\* What runPart does once the command has ended with how.err: it returns
\* the reboot request or the error, or goes on to read errch.
AfterCommand(c, how) ==
    LET r == runPartResult(c.mode, <<>>, how.err, how.stdout, how.stderr)
        d == [c EXCEPT !.cmd = how, !.ran = TRUE]
    IN  IF r.err # NilErr THEN Return(d, r)
        ELSE [d EXCEPT !.pc = "errch", !.result = r]

\* err = session.Run(cmd); terminal.Restore(0, tstate); termUnlock(), and
\* the lines up to the read of errch.
partSessionRun(p, how) ==
    /\ part[p].pc = "sessionRun"
    /\ term' = "free"
    /\ part' = [part EXCEPT ![p] = AfterCommand(part[p], how)]
    /\ UNCHANGED notPartVars

\* err = c.runCommand(session, cmd, &stdout, &stderr), and the lines up to
\* the read of errch.
partRunCommand(p, how) ==
    /\ part[p].pc = "runCommand"
    /\ part' = [part EXCEPT ![p] = AfterCommand(part[p], how)]
    /\ UNCHANGED <<notPartVars, term>>

\* err := <-errch, and the return.
partErrch(p) ==
    /\ part[p].pc = "errch"
    /\ Len(part[p].errch) > 0
    /\ LET c == part[p]
           d == [c EXCEPT !.errch = Tail(c.errch), !.reads = c.reads + 1]
       IN  part' = [part EXCEPT ![p] =
                       Return(d, AfterErrch(c.result.output, Head(c.errch)))]
    /\ UNCHANGED <<notPartVars, term>>

\* The writer task: stdin.Write(buf.Bytes()) returns, and its error is sent
\* on errch.  The write fails when stdin has been closed, and may fail
\* before.
writerWrite(p, ok) ==
    /\ part[p].writer = "write"
    /\ ok => part[p].stdin = "open"
    /\ Len(part[p].errch) < 2
    /\ part' = [part EXCEPT ![p].writer = "close",
                            ![p].errch = IF ok THEN @ ELSE Append(@, "err")]
    /\ UNCHANGED <<notPartVars, term>>

\* The writer task: errch <- stdin.Close()
writerClose(p, ok) ==
    /\ part[p].writer = "close"
    /\ ok => part[p].stdin = "open"
    /\ Len(part[p].errch) < 2
    /\ part' = [part EXCEPT ![p].writer = "done",
                            ![p].stdin = IF @ = "open" THEN "closed" ELSE @,
                            ![p].errch = Append(@, IF ok THEN "nil" ELSE "err")]
    /\ UNCHANGED <<notPartVars, term>>

NextPart ==
    \/ \E p \in PartCalls, mode \in Modes, empty \in BOOLEAN, sessionOk \in BOOLEAN :
          partStart(p, mode, empty, sessionOk)
    \/ \E p \in PartCalls, fail \in {"none", "StdinPipe", "GetSize", "RequestPty"} :
          partPrepare(p, fail)
    \/ \E p \in PartCalls : partTermLock(p)
    \/ \E p \in PartCalls, ok \in BOOLEAN : partMakeRaw(p, ok)
    \/ \E p \in PartCalls, how \in ShellCommands : partSessionRun(p, how)
    \/ \E p \in PartCalls, how \in PartCommands : partRunCommand(p, how)
    \/ \E p \in PartCalls : partErrch(p)
    \/ \E p \in PartCalls, ok \in BOOLEAN : writerWrite(p, ok)
    \/ \E p \in PartCalls, ok \in BOOLEAN : writerClose(p, ok)

SpecPart == InitPart /\ [][NextPart]_vars

\* The tasks are scheduled: a writer task that can take a step takes it, and
\* so does a call that can read errch.
FairPart ==
    \A p \in PartCalls :
        /\ WF_vars(\E ok \in BOOLEAN : writerWrite(p, ok))
        /\ WF_vars(\E ok \in BOOLEAN : writerClose(p, ok))
        /\ WF_vars(partErrch(p))

SpecPartLive == SpecPart /\ FairPart

\* C12: a shell-mode runPart call that took the terminal lock has released
\* it when it returns, on every exit path, the failure of MakeRaw included.
C12_TerminalReleased ==
    \A p \in DOMAIN part : part[p].pc = "returned" => term # p

\* C13: a runPart call opens at most one session; a call with an empty
\* script, or whose NewSession failed, opens none; and a session that was
\* opened is closed when the call has returned, whatever the exit path.
C13_SessionClosed ==
    \A p \in DOMAIN part :
        /\ part[p].opened <= 1
        /\ part[p].sess = "none" <=> part[p].opened = 0
        /\ part[p].pc = "returned" => part[p].sess # "open"

\* C13 witness: one call has returned on the kill-timeout path and the other
\* on the failure of MakeRaw, each with its session closed.
C13_Witness ==
    /\ part # <<>>
    /\ \E p, q \in DOMAIN part :
          /\ part[p].pc = "returned" /\ part[p].result.err = KillTimeoutErr
          /\ part[p].sess = "closed"
          /\ part[q].pc = "returned" /\ part[q].result.err.kind = "MakeRaw"
          /\ part[q].sess = "closed"

\* A call outside shell mode whose command ended with status 0 has returned.
ReturnedAfterSuccess(p) ==
    /\ part[p].pc = "returned"
    /\ part[p].ran
    /\ part[p].mode # shellOutput
    /\ part[p].cmd.err = NilErr

\* C14: outside shell mode, an error of the writer task never changes the
\* result: when the command ended with status 0, runPart returns the
\* captured output and a nil error, having read exactly one value from
\* errch; and a call that waits on errch always gets to return.
C14_WriteErrorsLogged ==
    /\ [](\A p \in PartCalls :
             ReturnedAfterSuccess(p) =>
                 /\ part[p].result.err = NilErr
                 /\ part[p].result.output = TrimSpace(part[p].cmd.stdout)
                 /\ part[p].reads = 1)
    /\ \A p \in PartCalls :
          (part[p].pc = "errch") ~> (part[p].pc = "returned")

\* C14 witness: a call returned the output and no error although the write
\* to stdin and the close had both failed.
C14_Witness ==
    /\ part # <<>>
    /\ \E p \in DOMAIN part :
          /\ ReturnedAfterSuccess(p)
          /\ part[p].writer = "done"
          /\ part[p].errch = <<"err">>
          /\ part[p].reads = 1
          /\ part[p].result = [output |-> <<"a">>, err |-> NilErr]

---------------------------------------------------------------------------
(* dialOnReboot                                                             *)

\* Time is counted in seconds here (the retry ticker's period) up to
\* MaxTime; the timers have all fired by then.
MaxTime == 8

\* waitConfig.Timeout = 5 * time.Second, in seconds.
waitTimeout == 5

\* Setter arguments the model draws for a client that reboots its target.
RebootArgs == {Second, 2 * Second, 3 * Second, 4 * Second}

DialTimeoutErr == Err("dial-timeout", 0, <<>>)

\* The kill timer's channel at time t: it fires once killTimeout has passed.
TimeoutAt(c, t) ==
    IF c = "pending" /\ t * Second >= killTimeout THEN "ready" ELSE c

\* A faulty variant of SelectCases: the selects have no timeout case.
SelectCasesNoTimeout(phase) == {"retry", "relog"}

\* The cases of the select of either loop.
SelectCases(phase) == {"retry", "relog", "timeout"}

\* A faulty variant of Swap: the new transport is dropped.
SwapNothing(old) == [sshc |-> old, oldClosed |-> FALSE]

\* c.sshc.Close(); c.sshc = sshc
Swap(old) == [sshc |-> "new", oldClosed |-> TRUE]

\* dialOnReboot has made its timers and dials for the first time.
InitDial ==
    /\ \E w \in RebootArgs, k \in RebootArgs :
          LET t == AfterSetKill(AfterSetWarn(DialTimers, w), k)
          IN  /\ warnTimeout = t.warn
              /\ killTimeout = t.kill
              /\ warnReq = WarnArg(w)
              /\ killReq = KillArg(k)
    /\ setterCalls = 2
    /\ SupIdle
    /\ MarkIdle
    /\ RunIdle
    /\ SendIdle
    /\ PartIdle
    /\ BufIdle
    /\ dpc = "dialA" /\ dnow = 0 /\ before = 0
    /\ retryC = FALSE /\ relogC = FALSE
    /\ timeoutC = TimeoutAt("pending", 0)
    /\ sshc = "old" /\ oldClosed = FALSE /\ probeOpen = FALSE
    /\ lastDial = [config |-> "none", ok |-> FALSE]
    /\ relogs = FALSE
    /\ dret = NilErr

\* One second passes: the retry ticker ticks, the relog ticker ticks every
\* warnTimeout, the kill timer fires at killTimeout.  A tick is dropped when
\* the channel of its ticker still holds one.
Tick ==
    /\ dpc \notin {"idle", "returned"}
    /\ dnow < MaxTime
    /\ dnow' = dnow + 1
    /\ retryC' = TRUE
    /\ relogC' = (relogC \/ GoRem(dnow' * Second, warnTimeout) = 0)
    /\ timeoutC' = TimeoutAt(timeoutC, dnow')
    /\ UNCHANGED <<notDialVars, dpc, before, sshc, oldClosed, probeOpen, lastDial,
                   relogs, dret>>

\* Phase A: ssh.Dial with waitConfig returns.  An error ends the phase; a
\* connection is closed, and the phase ends too when the dial took longer
\* than waitConfig.Timeout.
dialA(ok) ==
    /\ dpc = "dialA"
    /\ lastDial' = [config |-> "wait", ok |-> ok]
    /\ dpc' = IF ~ok \/ dnow > before + waitTimeout THEN "dialB" ELSE "selectA"
    /\ UNCHANGED <<notDialVars, dnow, before, retryC, relogC, timeoutC, sshc,
                   oldClosed, probeOpen, relogs, dret>>

\* The select of either loop takes the case of a channel that is ready.
selectCase(phase, case) ==
    /\ dpc = "select" \o phase
    /\ case \in SelectCases(phase)
    /\ \/ /\ case = "retry" /\ retryC
          /\ retryC' = FALSE
          /\ dpc' = "dial" \o phase
          /\ before' = dnow
          /\ UNCHANGED <<relogC, timeoutC, relogs, dret>>
       \/ /\ case = "relog" /\ relogC
          /\ relogC' = FALSE
          /\ relogs' = TRUE
          /\ dpc' = "dial" \o phase
          /\ before' = dnow
          /\ UNCHANGED <<retryC, timeoutC, dret>>
       \/ /\ case = "timeout" /\ timeoutC = "ready"
          /\ timeoutC' = "taken"
          /\ dpc' = "returned"
          /\ dret' = DialTimeoutErr
          /\ UNCHANGED <<retryC, relogC, relogs, before>>
    /\ UNCHANGED <<notDialVars, dnow, sshc, oldClosed, probeOpen, lastDial>>

\* Phase B: ssh.Dial with c.config returns.  On success the old transport
\* is closed, the new one installed, and dialOnReboot returns nil.
dialB(ok) ==
    /\ dpc = "dialB"
    /\ lastDial' = [config |-> "normal", ok |-> ok]
    /\ IF ok
       THEN /\ sshc' = Swap(sshc).sshc
            /\ oldClosed' = Swap(sshc).oldClosed
            /\ dpc' = "returned"
            /\ dret' = NilErr
       ELSE /\ dpc' = "selectB"
            /\ UNCHANGED <<sshc, oldClosed, dret>>
    /\ UNCHANGED <<notDialVars, dnow, before, retryC, relogC, timeoutC, probeOpen,
                   relogs>>

NextDial ==
    \/ Tick
    \/ \E ok \in BOOLEAN : dialA(ok)
    \/ \E case \in {"retry", "relog", "timeout"} : selectCase("A", case)
    \/ \E ok \in BOOLEAN : dialB(ok)
    \/ \E case \in {"retry", "relog", "timeout"} : selectCase("B", case)

SpecDial == InitDial /\ [][NextDial]_vars

\* Time passes, every dial returns, a select with a ready channel takes a
\* case, and the kill timer's case, picked at random among the ready ones,
\* is not passed over forever.
FairDial ==
    /\ WF_vars(Tick)
    /\ WF_vars(\E ok \in BOOLEAN : dialA(ok))
    /\ WF_vars(\E ok \in BOOLEAN : dialB(ok))
    /\ \A phase \in {"A", "B"} :
          /\ WF_vars(\E case \in {"retry", "relog", "timeout"} : selectCase(phase, case))
          /\ SF_vars(selectCase(phase, "timeout"))

SpecDialLive == SpecDial /\ FairDial

C19_TimeoutWitness ==
    /\ dpc = "returned" /\ dret = DialTimeoutErr
    /\ lastDial = [config |-> "normal", ok |-> FALSE]
    /\ sshc = "old" /\ ~oldClosed

\* C20: dialOnReboot always eventually returns, whatever the target does,
\* when every dial returns and the timers are served fairly.
C20_DialTerminates == <>(dpc = "returned")

\* C20 witness: dialOnReboot returned the kill-timeout error from phase A,
\* every dial having succeeded: the target never went down.
C20_Witness ==
    /\ dpc = "returned" /\ dret = DialTimeoutErr
    /\ lastDial = [config |-> "wait", ok |-> TRUE]
    /\ dnow >= 2

---------------------------------------------------------------------------
(* Send and MissingOrEmpty                                                  *)

\* strings.Split(s, "\n")
RECURSIVE Split(_)
Split(s) ==
    IF ~ContainsByte(s, "\n") THEN <<s>>
    ELSE LET i == CHOOSE i \in 1..Len(s) :
                     s[i] = "\n" /\ \A j \in 1..(i - 1) : s[j] # "\n"
         IN  <<SubSeq(s, 1, i - 1)>> \o Split(SubSeq(s, i + 1, Len(s)))

\* What c.Output returns for the check: the error, or the listing as the
\* remote command printed it, trimmed by runPart.
CheckOutput(entries, err) ==
    LET RECURSIVE Printed(_)
        Printed(n) == IF n = 0 THEN <<>>
                      ELSE Printed(n - 1) \o entries[n] \o <<"\n">>
    IN  runPartResult(splitOutput, <<>>, err, Printed(Len(entries)), <<>>)

\* Client.MissingOrEmpty, from what c.Output returned.
MissingOrEmpty(r) ==
    IF r.err # NilErr THEN [empty |-> FALSE, err |-> Err("cannot-check", 0, <<>>)]
    ELSE LET output == TrimSpace(r.output)
             lines == Split(output)
         IN  [empty |-> ~(Len(output) > 0
                          /\ \E i \in 1..Len(lines) :
                                lines[i] # <<".">> /\ lines[i] # <<".", ".">>),
              err |-> NilErr]

\* A faulty variant of SendGate: only the error of the check is looked at.
SendGateErrOnly(me) == me.err

\* The error Send returns after the check, NilErr when it goes on.
SendGate(me) ==
    IF me.err # NilErr THEN me.err
    ELSE IF ~me.empty THEN Err("not-empty", 0, <<>>)
    ELSE NilErr

\* Names of directory entries: ".", "..", and two ordinary ones.
EntryNames == {<<".">>, <<".", ".">>, <<"a">>, <<".", "a">>}

MaxEntries == 3

Listings == UNION {[1..n -> EntryNames] : n \in 0..MaxEntries}

\* Send is called; the target answers the check with a listing or an error.
InitSend ==
    /\ InitClient
    /\ SupIdle
    /\ MarkIdle
    /\ RunIdle
    /\ DialIdle
    /\ PartIdle
    /\ BufIdle
    /\ sdPc = "check"
    /\ lsEntries \in Listings
    /\ lsErr \in {NilErr, ExitErr(1), KillTimeoutErr}
    /\ sdEmpty = [empty |-> FALSE, err |-> NilErr]
    /\ sdSession = "none" /\ sdTar = "none" /\ sdRet = NilErr

\* empty, err := c.MissingOrEmpty(to)
sendCheck ==
    /\ sdPc = "check"
    /\ sdEmpty' = MissingOrEmpty(CheckOutput(lsEntries, lsErr))
    /\ sdPc' = "gate"
    /\ UNCHANGED <<notSendVars, lsEntries, lsErr, sdSession, sdTar, sdRet>>

\* The two returns after the check.
sendGate ==
    /\ sdPc = "gate"
    /\ IF SendGate(sdEmpty) # NilErr
       THEN sdPc' = "returned" /\ sdRet' = SendGate(sdEmpty)
       ELSE sdPc' = "NewSession" /\ UNCHANGED sdRet
    /\ UNCHANGED <<notSendVars, lsEntries, lsErr, sdEmpty, sdSession, sdTar>>

\* session, err := c.sshc.NewSession()
sendNewSession(ok) ==
    /\ sdPc = "NewSession"
    /\ IF ok
       THEN sdPc' = "tar" /\ sdSession' = "open" /\ UNCHANGED sdRet
       ELSE sdPc' = "returned" /\ sdRet' = Err("NewSession", 0, <<>>)
            /\ UNCHANGED sdSession
    /\ UNCHANGED <<notSendVars, lsEntries, lsErr, sdEmpty, sdTar>>

\* session.StdinPipe() and cmd.Start(); fail names the call that fails.
sendTar(fail) ==
    /\ sdPc = "tar"
    /\ IF fail = "none"
       THEN sdPc' = "runCommand" /\ sdTar' = "started"
            /\ UNCHANGED <<sdSession, sdRet>>
       ELSE sdPc' = "returned" /\ sdRet' = Err(fail, 0, <<>>)
            /\ sdSession' = sessionClose(sdSession)
            /\ UNCHANGED sdTar
    /\ UNCHANGED <<notSendVars, lsEntries, lsErr, sdEmpty>>

\* c.runCommand and <-errch: the remote command ends with err, the local
\* tar with tarErr.
sendRunCommand(err, tarErr) ==
    /\ sdPc = "runCommand"
    /\ sdPc' = "returned"
    /\ sdSession' = sessionClose(sdSession)
    /\ sdTar' = IF err = NilErr THEN "done" ELSE sdTar
    /\ sdRet' = IF err # NilErr THEN outputErr(<<>>, err)
                ELSE IF tarErr # NilErr THEN Err("tar", 0, <<>>)
                ELSE NilErr
    /\ UNCHANGED <<notSendVars, lsEntries, lsErr, sdEmpty>>

NextSend ==
    \/ sendCheck
    \/ sendGate
    \/ \E ok \in BOOLEAN : sendNewSession(ok)
    \/ \E fail \in {"none", "StdinPipe", "Start"} : sendTar(fail)
    \/ \E err \in {NilErr, ExitErr(1), KillTimeoutErr}, tarErr \in {NilErr, ExitErr(2)} :
          sendRunCommand(err, tarErr)

SpecSend == InitSend /\ [][NextSend]_vars

\* The listing shows an entry other than "." and "..".
OtherEntry ==
    \E i \in 1..Len(lsEntries) : lsEntries[i] \notin {<<".">>, <<".", ".">>}

\* C17: Send transfers nothing unless MissingOrEmpty returned true.  When
\* the check failed, or the listing showed an entry other than "." and
\* "..", Send has returned an error (the check's, or "not empty") with no
\* session opened and no tar started; it has gone past the check only
\* when the listing held nothing but "." and "..".
C17_SendRefuses ==
    sdPc \notin {"check", "gate"} =>
        /\ (lsErr # NilErr \/ OtherEntry) =>
              /\ sdPc = "returned"
              /\ sdRet = IF lsErr # NilErr THEN Err("cannot-check", 0, <<>>)
                         ELSE Err("not-empty", 0, <<>>)
              /\ sdSession = "none" /\ sdTar = "none"
        /\ (sdSession # "none" \/ sdTar # "none") =>
              (sdEmpty = [empty |-> TRUE, err |-> NilErr])

\* C17 witness: the listing showed ".", ".." and a third entry, and Send
\* returned "not empty" without a session.
C17_Witness ==
    /\ sdPc = "returned"
    /\ lsErr = NilErr
    /\ lsEntries = <<<<".">>, <<".", ".">>, <<"a">>>>
    /\ sdRet = Err("not-empty", 0, <<>>)
    /\ sdSession = "none"

\* C17 witness of the other side: the listing held "." and ".." only and
\* the transfer ran.
C17_SentWitness ==
    /\ sdPc = "returned"
    /\ lsEntries = <<<<".">>, <<".", ".">>>>
    /\ sdTar = "done" /\ sdRet = NilErr

\* The writer task of every call ends: its sends fit errch, and its write
\* returns once stdin is closed.
WriterEnds ==
    \A p \in PartCalls : (part[p].writer = "write") ~> (part[p].writer = "done")

===========================================================================
